---------------------------- MODULE Spec2Model ----------------------------
(***************************************************************************)
(* Model of the must-gather reader: locating the root of a must-gather     *)
(* (mg/src/mustgather.rs), building the path of a namespace or of the      *)
(* cluster scope, and reading the manifests of a resource type             *)
(* (mg/src/k8s_resources.rs).                                              *)
(*                                                                         *)
(* A file name is a sequence of tokens in which the token "." is the dot   *)
(* character and every other token is a run of characters without a dot:   *)
(* <<"machines", ".", "yaml">> is machines.yaml.  A path is a sequence of  *)
(* file names, <<>> being the directory the file system is rooted at.      *)
(* Every name pushed on a path is a single relative component.             *)
(***************************************************************************)
EXTENDS Integers, Sequences, FiniteSets, TLC

VARIABLES
    fs,              \* the file system: path -> node
    mg_root,         \* outcome of the last MustGatherRoot::new
    scope,           \* the Namespace value last built from a MustGatherRoot
    generated_path,  \* outcome of the last Namespace::get_path
    resources        \* outcome of the last get_all_resources

vars == <<fs, mg_root, scope, generated_path, resources>>

----------------------------------------------------------------------------
(* Bounds *)

MaxNodes == 4        \* nodes created below the root directory (root search)
MaxDepth == 3        \* longest path created (root search)
MaxYamlFiles == 2    \* distinct *.yaml names offered in a resource directory

----------------------------------------------------------------------------
(* File system *)

Dot == "."

DirNode == [kind |-> "dir", text |-> "", readable |-> TRUE]

FileNode(text, readable) == [kind |-> "file", text |-> text, readable |-> readable]

exists(f, p) == p \in DOMAIN f

is_dir(f, p) == exists(f, p) /\ f[p].kind = "dir"

is_file(f, p) == exists(f, p) /\ f[p].kind = "file"

join(path, name) == Append(path, name)

parent(path) == SubSeq(path, 1, Len(path) - 1)

\* the entries of a directory, as full paths
read_dir(f, path) ==
    {p \in DOMAIN f : Len(p) = Len(path) + 1 /\ parent(p) = path}

EmptyFs == (<<>> :> DirNode)

----------------------------------------------------------------------------
(* Results *)

Ok(v) == [kind |-> "Ok", value |-> v, msg |-> ""]

Err(m) == [kind |-> "Err", value |-> <<>>, msg |-> m]

NotCalled == [kind |-> "None", value |-> <<>>, msg |-> ""]

\* an error that names a path
ErrAt(m, path) == [kind |-> "Err", value |-> path, msg |-> m]

\* the thread panicked: nothing is returned
Panic(m) == [kind |-> "Panic", value |-> <<>>, msg |-> m]

IoError == "io error"

\* Option<T>: None is <<>>, Some(v) is <<v>>
None == <<>>

Some(v) == <<v>>

----------------------------------------------------------------------------
(* mustgather.rs: MustGatherRoot *)

VersionName == <<"version">>

NAMESPACES_PREFIX == <<"namespaces">>

CLUSTER_SCOPE_RESOURCES_PATH == <<"cluster-scoped-resources">>

CannotDetermineRoot == "Cannot determine root of must-gather"

\* faulty variant: the two marker tests joined with "and" instead of "or"
has_root_marker_and(f, path) ==
    /\ is_file(f, join(path, VersionName))
    /\ /\ is_dir(f, join(path, NAMESPACES_PREFIX))
       /\ is_dir(f, join(path, CLUSTER_SCOPE_RESOURCES_PATH))

\* faulty variant: exists() in place of is_file() and of is_dir()
has_root_marker_exists(f, path) ==
    \/ exists(f, join(path, VersionName))
    \/ /\ exists(f, join(path, NAMESPACES_PREFIX))
       /\ exists(f, join(path, CLUSTER_SCOPE_RESOURCES_PATH))

has_root_marker(f, path) ==
    \/ is_file(f, join(path, VersionName))
    \/ /\ is_dir(f, join(path, NAMESPACES_PREFIX))
       /\ is_dir(f, join(path, CLUSTER_SCOPE_RESOURCES_PATH))

\* faulty variant: the is_dir() filter dropped, every entry counted
sub_directories_all(f, path) == read_dir(f, path)

sub_directories(f, path) == {p \in read_dir(f, path) : is_dir(f, p)}

RECURSIVE find_mustgather_root(_, _)
find_mustgather_root(f, path) ==
    IF has_root_marker(f, path)
    THEN Ok(path)
    ELSE IF ~is_dir(f, path)
    THEN Err(IoError)
    ELSE LET subs == sub_directories(f, path) IN
         IF Cardinality(subs) = 1
         THEN find_mustgather_root(f, CHOOSE p \in subs : TRUE)
         ELSE Err(CannotDetermineRoot)

----------------------------------------------------------------------------
(* mustgather.rs: Namespace *)

\* PathBuf::push of one relative component
push(path, name) == Append(path, name)

\* MustGatherRoot::new_namespace
new_namespace(self, ns) == [root |-> self, namespace |-> Some(ns)]

\* MustGatherRoot::new_cluster_scoped
new_cluster_scoped(self) == [root |-> self, namespace |-> None]

\* faulty variant: the two constants swapped
get_path_swapped(self) ==
    IF self.namespace # None
    THEN push(push(self.root, CLUSTER_SCOPE_RESOURCES_PATH), self.namespace[1])
    ELSE push(self.root, NAMESPACES_PREFIX)

\* Namespace::get_path
get_path(self) ==
    IF self.namespace # None
    THEN push(push(self.root, NAMESPACES_PREFIX), self.namespace[1])
    ELSE push(self.root, CLUSTER_SCOPE_RESOURCES_PATH)

----------------------------------------------------------------------------
(* k8s_resources.rs: the YAML loader, as far as the reader looks at it *)

\* A parsed document is a mapping with a name; its "items" entry is an array
\* (array = TRUE, elems its elements) or is missing or not an array.
Doc(name) == [name |-> name, array |-> FALSE, elems |-> <<>>]

ListDoc(name, elems) == [name |-> name, array |-> TRUE, elems |-> elems]

\* the file contents offered, and what YamlLoader::load_from_str makes of them
Texts ==
    {"{", "", "name: m1", "name: m2", "name: m1\n---\nname: m2",
     "items: [m1, m2]", "items: []"}

load_from_str(text) ==
    CASE text = "{" -> Err("scan error")
      [] text = "" -> Ok(<<>>)
      [] text = "name: m1" -> Ok(<<Doc("m1")>>)
      [] text = "name: m2" -> Ok(<<Doc("m2")>>)
      [] text = "name: m1\n---\nname: m2" -> Ok(<<Doc("m1"), Doc("m2")>>)
      [] text = "items: [m1, m2]" -> Ok(<<ListDoc("list", <<Doc("m1"), Doc("m2")>>)>>)
      [] text = "items: []" -> Ok(<<ListDoc("list", <<>>)>>)
      [] OTHER -> Err("scan error")

\* fs::read_to_string
read_to_string(f, p) ==
    IF is_file(f, p) /\ f[p].readable THEN Ok(f[p].text) ELSE Err(IoError)

----------------------------------------------------------------------------
(* k8s_resources.rs: K8sManifest *)

K8sManifest(source_path, raw, yaml) ==
    [source_path |-> source_path, raw |-> raw, yaml |-> yaml]

Yaml == <<"yaml">>

\* Path::extension of a file name: the part after the last dot, None when the
\* name has no dot or only a leading one
extension(name) ==
    LET dots == {i \in 1..Len(name) : name[i] = Dot} IN
    IF dots = {} \/ name = <<Dot, Dot>>
    THEN None
    ELSE LET last == CHOOSE i \in dots : \A j \in dots : j <= i IN
         IF last = 1 THEN None ELSE Some(SubSeq(name, last + 1, Len(name)))

file_name(p) == p[Len(p)]

ExpectedOneDocument == "expected to contain only one yaml document"

\* the filter of read_dir panics: extension().unwrap() on a file without one
filter_panics(f, path) ==
    \E p \in read_dir(f, path) : is_file(f, p) /\ extension(file_name(p)) = None

yaml_documents(f, path) ==
    {p \in read_dir(f, path) : is_file(f, p) /\ extension(file_name(p)) = Some(Yaml)}

\* the loop of read_dir over the files, in the order the directory lists them
RECURSIVE read_dir_loop(_, _, _, _)
read_dir_loop(f, order, i, manifests) ==
    IF i > Len(order)
    THEN Ok(manifests)
    ELSE LET file_path == order[i]
             raw_content == read_to_string(f, file_path)
         IN  IF raw_content.kind # "Ok"
             THEN raw_content
             ELSE LET parsed_yaml == load_from_str(raw_content.value) IN
                  IF parsed_yaml.kind # "Ok"
                  THEN parsed_yaml
                  ELSE IF Len(parsed_yaml.value) # 1
                  THEN ErrAt(ExpectedOneDocument, file_path)
                  ELSE read_dir_loop(f, order, i + 1,
                           Append(manifests,
                                  K8sManifest(file_path, Some(raw_content.value),
                                              parsed_yaml.value[1])))

\* every order in which a directory may list the members of S
Orders(S) ==
    {o \in [1..Cardinality(S) -> S] : \A i, j \in 1..Cardinality(S) : o[i] = o[j] => i = j}

\* K8sManifest::read_dir, the directory listing its yaml files in `order`
K8sManifest_read_dir(f, path, order) ==
    IF ~is_dir(f, path)
    THEN ErrAt("Path is not directory", path)
    ELSE IF filter_panics(f, path)
    THEN Panic("called Option::unwrap() on a None value")
    ELSE read_dir_loop(f, order, 1, <<>>)

\* faulty variant: the items sliced out keep the text of the whole file
list_manifests_raw(path, raw_content, items) ==
    [i \in 1..Len(items) |-> K8sManifest(path, Some(raw_content), items[i])]

list_manifests(path, raw_content, items) ==
    [i \in 1..Len(items) |-> K8sManifest(path, None, items[i])]

\* K8sManifest::read_file
K8sManifest_read_file(f, path) ==
    IF ~is_file(f, path)
    THEN ErrAt("Path is not a file", path)
    ELSE LET raw_content == read_to_string(f, path) IN
         IF raw_content.kind # "Ok"
         THEN raw_content
         ELSE LET parsed_yaml == load_from_str(raw_content.value) IN
              IF parsed_yaml.kind # "Ok"
              THEN parsed_yaml
              ELSE IF Len(parsed_yaml.value) # 1
              THEN ErrAt(ExpectedOneDocument, path)
              ELSE LET maybe_list_type_resource == parsed_yaml.value[1] IN
                   IF maybe_list_type_resource.array
                   THEN Ok(list_manifests(path, raw_content.value,
                                          maybe_list_type_resource.elems))
                   ELSE Err("doesnt look like list type resource")

----------------------------------------------------------------------------
(* k8s_resources.rs: MustGatherK8sResource *)

\* the implementations of the trait in the tests
Machine == [group |-> <<"machine", Dot, "openshift", Dot, "io">>, kind |-> "machine"]

Deployment == [group |-> <<"apps">>, kind |-> "deployment"]

NoResource == [group |-> <<>>, kind |-> ""]

get_group(d) == d.group

get_kind(d) == d.kind

get_kind_plural(d) == <<get_kind(d) \o "s">>

get_resources_root(d, mg) == push(push(get_path(mg), get_group(d)), get_kind_plural(d))

\* faulty variant: the list file looked for one level up, beside the group directory
resources_document_nogroup(d, resources_root) ==
    push(parent(parent(resources_root)), get_kind_plural(d) \o <<Dot, "yaml">>)

\* the list file: "<plural>.yaml" in the parent of the resources root
resources_document(d, resources_root) ==
    push(parent(resources_root), get_kind_plural(d) \o <<Dot, "yaml">>)

NotFound == "can not found sutiable manifests in"

\* faulty variant: the list file is tried first
get_all_resources_file_first(f, d, mg, order) ==
    LET resources_root == get_resources_root(d, mg) IN
    IF is_file(f, resources_document(d, resources_root))
    THEN K8sManifest_read_file(f, resources_document(d, resources_root))
    ELSE IF is_dir(f, resources_root)
    THEN K8sManifest_read_dir(f, resources_root, order)
    ELSE ErrAt(NotFound, resources_root)

get_all_resources(f, d, mg, order) ==
    LET resources_root == get_resources_root(d, mg) IN
    IF is_dir(f, resources_root)
    THEN K8sManifest_read_dir(f, resources_root, order)
    ELSE IF Len(resources_root) = 0
    THEN Err("does not have parent directory")
    ELSE IF is_file(f, resources_document(d, resources_root))
    THEN K8sManifest_read_file(f, resources_document(d, resources_root))
    ELSE ErrAt(NotFound, resources_root)

----------------------------------------------------------------------------
(* Actions *)

RootNames ==
    {VersionName, NAMESPACES_PREFIX, CLUSTER_SCOPE_RESOURCES_PATH, <<"a">>, <<"b">>}

\* the environment creates a directory
MkDir(p) ==
    /\ ~exists(fs, p)
    /\ is_dir(fs, parent(p))
    /\ fs' = (p :> DirNode) @@ fs
    /\ UNCHANGED <<mg_root, scope, generated_path, resources>>

\* the environment creates a file
MkFile(p, text, readable) ==
    /\ ~exists(fs, p)
    /\ is_dir(fs, parent(p))
    /\ fs' = (p :> FileNode(text, readable)) @@ fs
    /\ UNCHANGED <<mg_root, scope, generated_path, resources>>

\* MustGatherRoot::new(root)
New(root) ==
    /\ mg_root' = [start |-> root, res |-> find_mustgather_root(fs, root)]
    /\ UNCHANGED <<fs, scope, generated_path, resources>>

ExistingNamespace == <<"openshift-machine-api">>

NamespaceNames == {ExistingNamespace, <<"default">>}

Idle == generated_path = NotCalled /\ resources.res = NotCalled

\* MustGatherRoot::new_namespace(ns)
NewNamespace(ns) ==
    /\ mg_root.res.kind = "Ok"
    /\ scope = None
    /\ scope' = Some(new_namespace(mg_root.res.value, ns))
    /\ UNCHANGED <<fs, mg_root, generated_path, resources>>

\* MustGatherRoot::new_cluster_scoped()
NewClusterScoped ==
    /\ mg_root.res.kind = "Ok"
    /\ scope = None
    /\ scope' = Some(new_cluster_scoped(mg_root.res.value))
    /\ UNCHANGED <<fs, mg_root, generated_path, resources>>

\* Namespace::get_path()
GetPath ==
    /\ scope # None
    /\ Idle
    /\ generated_path' = Ok(get_path(scope[1]))
    /\ UNCHANGED <<fs, mg_root, scope, resources>>

RootChildren ==
    {join(d, n) : d \in {q \in DOMAIN fs : is_dir(fs, q) /\ Len(q) < MaxDepth},
                  n \in RootNames}

RootStarts == DOMAIN fs \cup {<<<<"missing">>>>}

Init ==
    /\ fs = EmptyFs
    /\ mg_root = [start |-> <<>>, res |-> NotCalled]
    /\ scope = None
    /\ generated_path = NotCalled
    /\ resources = [desc |-> NoResource, res |-> NotCalled]

Next ==
    \/ /\ Cardinality(DOMAIN fs) <= MaxNodes
       /\ mg_root.res = NotCalled
       /\ \E p \in RootChildren : MkDir(p)
    \/ /\ Cardinality(DOMAIN fs) <= MaxNodes
       /\ mg_root.res = NotCalled
       /\ \E p \in RootChildren : MkFile(p, "", TRUE)
    \/ /\ mg_root.res = NotCalled
       /\ \E root \in RootStarts : New(root)
    \/ \E ns \in NamespaceNames : NewNamespace(ns)
    \/ NewClusterScoped
    \/ GetPath

Spec == Init /\ [][Next]_vars


----------------------------------------------------------------------------
(* Reading resources out of a located must-gather *)

BundleRootDir == <<"must-gather">>

\* a must-gather below one wrapper directory, with one namespace
BundleFs ==
    LET r == <<BundleRootDir>> IN
        (<<>> :> DirNode)
     @@ (r :> DirNode)
     @@ (r \o <<<<"version">>>> :> FileNode("", TRUE))
     @@ (r \o <<<<"namespaces">>>> :> DirNode)
     @@ (r \o <<<<"namespaces">>, ExistingNamespace>> :> DirNode)
     @@ (r \o <<<<"cluster-scoped-resources">>>> :> DirNode)

\* where the environment puts the deployments of the namespace
ScopeDir == <<BundleRootDir, <<"namespaces">>, ExistingNamespace>>

GroupDir == ScopeDir \o <<<<"apps">>>>

ResourceDir == GroupDir \o <<<<"deployments">>>>

GroupListFile == GroupDir \o <<<<"deployments", Dot, "yaml">>>>

ScopeListFile == ScopeDir \o <<<<"deployments", Dot, "yaml">>>>

Stems == <<"a", "b", "c", "d", "e">>

YamlNames == {<<Stems[i], Dot, "yaml">> : i \in 1..MaxYamlFiles}

OtherNames == {<<"README">>, <<"notes", Dot, "txt">>}

ExDirPaths ==
    {GroupDir, ResourceDir, GroupListFile}
        \cup {join(ResourceDir, n) : n \in YamlNames \cup {<<"README">>}}

\* <<path, text, readable>>: a file the environment may create
ExFiles ==
    {<<ResourceDir, "", TRUE>>}
        \cup {<<join(ResourceDir, n), "", TRUE>> : n \in OtherNames}
        \cup {<<p, t, TRUE>> : p \in {join(ResourceDir, n) : n \in YamlNames} \cup {GroupListFile},
                               t \in Texts}
        \cup {<<p, "", FALSE>> : p \in {join(ResourceDir, n) : n \in YamlNames} \cup {GroupListFile}}
        \cup {<<ScopeListFile, t, TRUE>> : t \in {"items: [m1, m2]", "name: m1"}}

Resources == {Machine, Deployment}

\* <resource>::get_all_resources(mg)
GetAllResources(d) ==
    /\ scope # None
    /\ Idle
    /\ \E order \in Orders(yaml_documents(fs, get_resources_root(d, scope[1]))) :
          resources' = [desc |-> d, res |-> get_all_resources(fs, d, scope[1], order)]
    /\ UNCHANGED <<fs, mg_root, scope, generated_path>>

ExtractInit ==
    /\ fs = BundleFs
    /\ mg_root = [start |-> <<>>, res |-> find_mustgather_root(BundleFs, <<>>)]
    /\ scope = None
    /\ generated_path = NotCalled
    /\ resources = [desc |-> NoResource, res |-> NotCalled]

ExtractNext ==
    \/ scope = None /\ \E p \in ExDirPaths : MkDir(p)
    \/ scope = None /\ \E x \in ExFiles : MkFile(x[1], x[2], x[3])
    \/ \E ns \in NamespaceNames : NewNamespace(ns)
    \/ NewClusterScoped
    \/ \E d \in Resources : GetAllResources(d)

ExtractSpec == ExtractInit /\ [][ExtractNext]_vars

----------------------------------------------------------------------------
(* Properties of the root search *)

IsPrefix(s, p) == Len(s) <= Len(p) /\ SubSeq(p, 1, Len(s)) = s

Children(d) == {c \in DOMAIN fs : Len(c) = Len(d) + 1 /\ IsPrefix(d, c)}

SubDirsOf(d) == {c \in Children(d) : fs[c].kind = "dir"}

HasVersionFile(d) ==
    \E c \in Children(d) : c[Len(c)] = <<"version">> /\ fs[c].kind = "file"

HasBothDirs(d) ==
    /\ \E c \in SubDirsOf(d) : c[Len(c)] = <<"namespaces">>
    /\ \E c \in SubDirsOf(d) : c[Len(c)] = <<"cluster-scoped-resources">>

Marked(d) == HasVersionFile(d) \/ HasBothDirs(d)

\* every directory from s down to, and without, p is unmarked and has exactly
\* one subdirectory
SingleChain(s, p) ==
    /\ IsPrefix(s, p)
    /\ \A k \in Len(s)..(Len(p) - 1) :
          LET q == SubSeq(p, 1, k) IN ~Marked(q) /\ Cardinality(SubDirsOf(q)) = 1

Searched == mg_root.res.kind # "None"

\* C1: a version file sits in directory p, and every directory on the chain
\* from the start path down to p has exactly one subdirectory and no root
\* marker: the search succeeds and returns exactly p, at every depth.
C1_VersionAtDepthFound ==
    Searched =>
        \A p \in DOMAIN fs :
            (HasVersionFile(p) /\ SingleChain(mg_root.start, p))
                => mg_root.res = Ok(p)

C1_Witness ==
    /\ Searched
    /\ \E p \in DOMAIN fs :
          /\ Len(p) >= Len(mg_root.start) + 2
          /\ HasVersionFile(p)
          /\ ~HasBothDirs(p)
          /\ SingleChain(mg_root.start, p)
          /\ \E q \in DOMAIN fs : IsPrefix(q, p) /\ q # p /\ IsPrefix(mg_root.start, q)
                                  /\ \E c \in Children(q) : fs[c].kind = "file"
          /\ mg_root.res = Ok(p)

\* C2: the search reaches a directory p that has no version file, not both
\* marker directories, and zero or at least two subdirectories (files are not
\* subdirectories): the search fails with "Cannot determine root of
\* must-gather".
C2_AmbiguousOrMissingFails ==
    Searched =>
        \A p \in DOMAIN fs :
            (/\ fs[p].kind = "dir"
             /\ SingleChain(mg_root.start, p)
             /\ ~Marked(p)
             /\ Cardinality(SubDirsOf(p)) # 1)
                => mg_root.res = Err("Cannot determine root of must-gather")

C2_Witness ==
    /\ Searched
    /\ \E p \in DOMAIN fs :
          /\ fs[p].kind = "dir"
          /\ Len(p) > Len(mg_root.start)
          /\ SingleChain(mg_root.start, p)
          /\ ~Marked(p)
          /\ Cardinality(SubDirsOf(p)) = 0
          /\ Cardinality(Children(p)) = 1
          /\ mg_root.res = Err("Cannot determine root of must-gather")

\* C3: a path returned by a successful search is a directory that directly
\* holds a file named version, or both a namespaces directory and a
\* cluster-scoped-resources directory.
C3_ReturnedRootIsMarked ==
    mg_root.res.kind = "Ok" =>
        LET r == mg_root.res.value IN
            /\ r \in DOMAIN fs
            /\ fs[r].kind = "dir"
            /\ Marked(r)

C3_Witness ==
    /\ mg_root.res.kind = "Ok"
    /\ mg_root.res.value # mg_root.start
    /\ HasBothDirs(mg_root.res.value)
    /\ ~HasVersionFile(mg_root.res.value)

----------------------------------------------------------------------------
(* Properties of the scope path *)

\* the path the scope stands for: R/namespaces/n, or R/cluster-scoped-resources
ScopePathOf(ns) ==
    IF ns.namespace = <<>>
    THEN ns.root \o <<<<"cluster-scoped-resources">>>>
    ELSE ns.root \o <<<<"namespaces">>, ns.namespace[1]>>

\* C10: get_path of a namespace n of root R is exactly R/namespaces/n, and of
\* the cluster scope exactly R/cluster-scoped-resources; it never fails,
\* whether or not that path exists, and the root path is left as it was.
C10_ScopePath ==
    generated_path.kind # "None" =>
        /\ generated_path.kind = "Ok"
        /\ generated_path.value = ScopePathOf(scope[1])
        /\ scope[1].root = mg_root.res.value

C10_Witness ==
    /\ generated_path.kind = "Ok"
    /\ scope[1].namespace = <<<<"default">>>>
    /\ Len(scope[1].root) >= 2
    /\ generated_path.value = scope[1].root \o <<<<"namespaces">>, <<"default">>>>
    /\ generated_path.value \notin DOMAIN fs

----------------------------------------------------------------------------
(* Properties of get_all_resources *)

Called == resources.res.kind # "None"

Result == resources.res

PluralOf(d) == IF d.kind = "machine" THEN "machines" ELSE "deployments"

\* <scope>/<group>/<plural>
CandidateDir == ScopePathOf(scope[1]) \o <<resources.desc.group, <<PluralOf(resources.desc)>>>>

\* <scope>/<group>/<plural>.yaml, beside the candidate directory
SiblingListFile ==
    ScopePathOf(scope[1]) \o <<resources.desc.group, <<PluralOf(resources.desc), ".", "yaml">>>>

\* <scope>/<plural>.yaml, the group level dropped
UngroupedListFile ==
    ScopePathOf(scope[1]) \o <<<<PluralOf(resources.desc), ".", "yaml">>>>

IsDirectory(p) == p \in DOMAIN fs /\ fs[p].kind = "dir"

IsRegularFile(p) == p \in DOMAIN fs /\ fs[p].kind = "file"

EndsInDotYaml(n) == Len(n) >= 3 /\ n[Len(n)] = "yaml" /\ n[Len(n) - 1] = "."

YamlFilesIn(d) == {c \in Children(d) : fs[c].kind = "file" /\ EndsInDotYaml(c[Len(c)])}

\* readable, well-formed, exactly one document
HoldsOneDocument(c) ==
    /\ fs[c].readable
    /\ load_from_str(fs[c].text).kind = "Ok"
    /\ Len(load_from_str(fs[c].text).value) = 1

DocumentOf(c) == load_from_str(fs[c].text).value[1]

DirectoryLayout == Called /\ IsDirectory(CandidateDir)

\* the result holds exactly one resource per yaml file of the directory, with
\* the file as source, the file's text as raw text, and the file's document
OnePerYamlFile ==
    /\ Result.kind = "Ok"
    /\ Len(Result.value) = Cardinality(YamlFilesIn(CandidateDir))
    /\ \A c \in YamlFilesIn(CandidateDir) :
          \E i \in 1..Len(Result.value) :
              Result.value[i] =
                  [source_path |-> c, raw |-> <<fs[c].text>>, yaml |-> DocumentOf(c)]

\* C4: the candidate directory exists and each of its N .yaml files holds
\* exactly one well-formed document: the result is exactly N resources, one
\* per file, with that file's path, text and document.
C4_DirectoryRoundTrip ==
    (DirectoryLayout /\ \A c \in YamlFilesIn(CandidateDir) : HoldsOneDocument(c))
        => OnePerYamlFile

\* C4 as far as the code goes: the same, for a directory that holds no file
\* without an extension.
C4_RoundTripWithoutBareFile ==
    (/\ DirectoryLayout
     /\ \A c \in YamlFilesIn(CandidateDir) : HoldsOneDocument(c)
     /\ \A c \in Children(CandidateDir) :
           fs[c].kind = "file" => \E i \in 2..Len(c[Len(c)]) : c[Len(c)][i] = ".")
        => OnePerYamlFile

\* C5: the candidate directory is absent and the list file beside it holds one
\* document whose items is an array of M elements: the result is M resources
\* in array order, each without raw text, with the list file as source and the
\* i-th element as document.
C5_ListLayout ==
    (/\ Called
     /\ ~IsDirectory(CandidateDir)
     /\ IsRegularFile(SiblingListFile)
     /\ HoldsOneDocument(SiblingListFile)
     /\ DocumentOf(SiblingListFile).array)
        => /\ Result.kind = "Ok"
           /\ Len(Result.value) = Len(DocumentOf(SiblingListFile).elems)
           /\ \A i \in 1..Len(Result.value) :
                 Result.value[i] =
                     [source_path |-> SiblingListFile, raw |-> <<>>,
                      yaml |-> DocumentOf(SiblingListFile).elems[i]]

C5_Witness ==
    /\ Called
    /\ CandidateDir \notin DOMAIN fs
    /\ IsRegularFile(SiblingListFile)
    /\ HoldsOneDocument(SiblingListFile)
    /\ DocumentOf(SiblingListFile).array
    /\ Result.kind = "Ok"
    /\ Len(Result.value) = 2
    /\ Result.value[1].yaml # Result.value[2].yaml

\* C6: in the directory layout every entry whose extension is not yaml, a file
\* without any extension included, is skipped: the call completes, no resource
\* comes from such an entry, and the matching files alone decide the result.
C6_OtherEntriesSkipped ==
    DirectoryLayout =>
        /\ Result.kind \in {"Ok", "Err"}
        /\ Result.kind = "Ok" =>
              \A i \in 1..Len(Result.value) :
                  Result.value[i].source_path \in YamlFilesIn(CandidateDir)
        /\ (\A c \in YamlFilesIn(CandidateDir) : HoldsOneDocument(c)) => Result.kind = "Ok"

\* C7: in the directory layout, a .yaml file that cannot be read, is not
\* well-formed, or does not hold exactly one document makes the call return
\* an error, and so no resource, whatever the other files and the order.
C7_AllOrNothing ==
    (DirectoryLayout /\ \E c \in YamlFilesIn(CandidateDir) : ~HoldsOneDocument(c))
        => Result.kind = "Err"

\* C7 as far as the code goes: such a file never lets the call return
\* resources.
C7_NoPartialResult ==
    (DirectoryLayout /\ \E c \in YamlFilesIn(CandidateDir) : ~HoldsOneDocument(c))
        => Result.kind # "Ok"

IsNotFound ==
    /\ Result.kind = "Err"
    /\ Result.msg = "can not found sutiable manifests in"
    /\ Result.value = CandidateDir

\* C8: the call fails with the not-found error, naming the candidate
\* directory, exactly when the candidate is no directory and the list file
\* beside it is no file; when the candidate directory exists, the resources
\* come from the directory and never from the list file.
C8_NotFound ==
    Called =>
        /\ IsNotFound <=> (~IsDirectory(CandidateDir) /\ ~IsRegularFile(SiblingListFile))
        /\ (IsDirectory(CandidateDir) /\ Result.kind = "Ok") =>
              \A i \in 1..Len(Result.value) :
                  /\ Result.value[i].source_path \in Children(CandidateDir)
                  /\ Result.value[i].raw # <<>>

C8_Witness ==
    /\ Called
    /\ IsDirectory(SubSeq(CandidateDir, 1, Len(CandidateDir) - 1))
    /\ CandidateDir \notin DOMAIN fs
    /\ SiblingListFile \notin DOMAIN fs
    /\ IsRegularFile(UngroupedListFile)
    /\ IsNotFound

FromListFile == Called /\ ~IsDirectory(CandidateDir) /\ Result.kind = "Ok"

\* C9 (as claimed): the list file that is checked and read has no group
\* component: it is not <scope>/<group>/<plural>.yaml.
C9_GroupDropped ==
    FromListFile =>
        \A i \in 1..Len(Result.value) :
            /\ Result.value[i].source_path # SiblingListFile
            /\ \A k \in 1..Len(Result.value[i].source_path) :
                  Result.value[i].source_path[k] # resources.desc.group

\* C9 (amended): the list file that is checked and read is the one named
\* <plural>.yaml in the parent of the candidate directory, which is the group
\* directory: <scope>/<group>/<plural>.yaml.  <scope>/<plural>.yaml is never
\* read.
C9_GroupKept ==
    (Called /\ ~IsDirectory(CandidateDir)) =>
        /\ Result.kind = "Ok" =>
              \A i \in 1..Len(Result.value) :
                  Result.value[i].source_path = SiblingListFile
        /\ ~IsRegularFile(SiblingListFile) => IsNotFound
        /\ IsRegularFile(SiblingListFile) => ~IsNotFound

C9_Witness ==
    /\ FromListFile
    /\ IsRegularFile(UngroupedListFile)
    /\ fs[UngroupedListFile].text = "items: [m1, m2]"
    /\ Len(Result.value) = 2
    /\ Result.value[1].source_path = SiblingListFile
    /\ SiblingListFile[Len(SiblingListFile) - 1] = resources.desc.group

=============================================================================
